---- MODULE Spec2Model ----
(***************************************************************************)
(* Model of the component-tagger: the pure predicates of                   *)
(* core/component-path.ts and the per-element tagging logic of             *)
(* core/jsx-tagger.ts (shouldTagElement, attrExists, createPathAttribute,  *)
(* processJsxElement).                                                     *)
(*                                                                         *)
(* A JavaScript string is modelled as the sequence of its code points, so  *)
(* "div" is <<100, 105, 118>>.  A syntax-tree node is a record carrying    *)
(* the same fields as the Babel node (type, name, attributes, loc, ...).   *)
(***************************************************************************)
EXTENDS Integers, Sequences, FiniteSets, TLC

VARIABLES
  node,     \* the JSXOpeningElement being processed
  context,  \* the JsxTaggerContext handed to processJsxElement
  ret,      \* return value of the last processJsxElement call
  orig,     \* history: node.attributes (or the file) before the first call
  prev,     \* history: node.attributes (or the file) before the last call
  calls,    \* history: number of visits made on node (or walks over file)
  arg,      \* input string of a pure string function
  res,      \* result of the pure function that was applied
  fn,       \* which pure function was applied ("none" before)
  num,      \* line and column handed to formatComponentPathValue
  entry,    \* entry point the host loaded: "vite", "babel", "shim" or "none"
  pluginState,   \* per-file state the compiler hands to a plugin visitor
  processCwd,    \* process.cwd() of the host process
  ctxResult,     \* context the compiler plugin resolved at its last visit
  pluginOptions, \* options the dev-server plugin was constructed with
  resolvedRoot,  \* root captured by the dev-server plugin instance
  rootWrites,    \* history: writers of resolvedRoot, in order
  transforms,    \* history: the transform calls made on the instance
  file,          \* the nodes of a file's tree the visitor walks, in source order
  instances      \* dev-server plugin instances living in one process

hostVars ==
  <<entry, pluginState, processCwd, ctxResult, pluginOptions, resolvedRoot,
    rootWrites, transforms, file, instances>>

vars == <<node, context, ret, orig, prev, calls, arg, res, fn, num, hostVars>>

(***************************************************************************)
(* Bounds                                                                  *)
(***************************************************************************)
MaxAttrs == 2
MaxLine == 12
MaxCol == 3
MaxCalls == 2
MaxIdLen == 5
MaxNameLen == 2

(***************************************************************************)
(* String literals (code point sequences)                                  *)
(***************************************************************************)
\* "data-path"
componentPathAttributeName == <<100, 97, 116, 97, 45, 112, 97, 116, 104>>
\* "custom-path"
customPathAttributeName == <<99, 117, 115, 116, 111, 109, 45, 112, 97, 116, 104>>
\* "id"
idAttributeName == <<105, 100>>
\* "tsx" and "jsx"
jsxExtensions == {<<116, 115, 120>>, <<106, 115, 120>>}
\* code points that the regular expression atom "." does not match
LineTerminators == {10, 13, 8232, 8233}

(***************************************************************************)
(* core/component-path.ts                                                  *)
(***************************************************************************)

\* /\.(tsx|jsx)(\?.*)?$/u .test(id): some position holds ".", then "tsx" or
\* "jsx", then either the end of the input or "?" followed up to the end of
\* the input by characters that "." matches.
jsxFilePatternTest(id) ==
  \E i \in 1..Len(id) :
    /\ i + 3 <= Len(id)
    /\ id[i] = 46
    /\ SubSeq(id, i + 1, i + 3) \in jsxExtensions
    /\ \/ i + 3 = Len(id)
       \/ /\ i + 4 <= Len(id)
          /\ id[i + 4] = 63
          /\ \A k \in (i + 5)..Len(id) : id[k] \notin LineTerminators

isJsxFile(id) == jsxFilePatternTest(id)

\* Number-to-string conversion of a template literal, for naturals.
\* mutant: the numeral is padded to two digits
NumberToString_Padded(n) ==
  <<48 + (n \div 10), 48 + (n % 10)>>

RECURSIVE NumberToString(_)
NumberToString(n) ==
  IF n < 10 THEN <<48 + n>>
  ELSE NumberToString(n \div 10) \o <<48 + (n % 10)>>

\* mutant: no separator between the filename and the line
formatComponentPathValue_MissingColon(relativeFilename, line, column) ==
  relativeFilename \o NumberToString(line) \o <<58>> \o NumberToString(column)

formatComponentPathValue(relativeFilename, line, column) ==
  relativeFilename \o <<58>> \o NumberToString(line) \o <<58>> \o NumberToString(column)

\* mutant: the upper bound of the range is exclusive
isHtmlTag_UpperBoundExclusive(elementName) ==
  IF Len(elementName) = 0 THEN FALSE
  ELSE LET firstChar == elementName[1]
       IN  firstChar >= 97 /\ firstChar < 122

isHtmlTag(elementName) ==
  IF Len(elementName) = 0 THEN FALSE
  ELSE LET firstChar == elementName[1]
       IN  firstChar >= 97 /\ firstChar <= 122

(***************************************************************************)
(* shell/component-tagger.ts: stripQuery, exported by later revisions of   *)
(* core/component-path.ts as normalizeModuleId                             *)
(***************************************************************************)

\* String.prototype.indexOf for a one-character needle: 0-based index of
\* the first occurrence at or after 1-based position i, or -1.
RECURSIVE indexOf(_, _, _)
indexOf(s, ch, i) ==
  IF i > Len(s) THEN -1
  ELSE IF s[i] = ch THEN i - 1
  ELSE indexOf(s, ch, i + 1)

\* mutant: the slice keeps the character at queryIndex
stripQuery_SliceOffByOne(id) ==
  LET queryIndex == indexOf(id, 63, 1)
  IN  IF queryIndex = -1 THEN id ELSE SubSeq(id, 1, queryIndex + 1)

stripQuery(id) ==
  LET queryIndex == indexOf(id, 63, 1)
  IN  IF queryIndex = -1 THEN id ELSE SubSeq(id, 1, queryIndex)

normalizeModuleId(id) == stripQuery(id)

(***************************************************************************)
(* core/jsx-tagger.ts                                                      *)
(***************************************************************************)

\* attr is a JSXAttribute whose name is the JSXIdentifier attrName
isNamedAttribute(attr, attrName) ==
  /\ attr.type = "JSXAttribute"
  /\ attr.name.type = "JSXIdentifier"
  /\ attr.name.name = attrName

\* mutant: only the first attribute is inspected
attrExists_FirstOnly(n, attrName) ==
  /\ Len(n.attributes) > 0
  /\ isNamedAttribute(n.attributes[1], attrName)

attrExists(n, attrName) ==
  \E i \in 1..Len(n.attributes) : isNamedAttribute(n.attributes[i], attrName)

\* options?.tagComponents, with "undefined" for an absent object or field
tagComponentsOf(options) ==
  IF options.kind = "undefined" THEN "undefined"
  ELSE IF options.tagComponents = "absent" THEN "undefined"
  ELSE options.tagComponents

\* mutant: an unspecified tagComponents defaults to false
shouldTagElement_DefaultFalse(n, options) ==
  IF n.name.type = "JSXIdentifier" THEN
    \/ isHtmlTag(n.name.name)
    \/ IF tagComponentsOf(options) = "undefined" THEN FALSE
       ELSE tagComponentsOf(options) = "true"
  ELSE IF n.name.type = "JSXMemberExpression" THEN FALSE
  ELSE IF n.name.type = "JSXNamespacedName" THEN
    \/ isHtmlTag(n.name.namespace.name)
    \/ IF tagComponentsOf(options) = "undefined" THEN FALSE
       ELSE tagComponentsOf(options) = "true"
  ELSE FALSE

shouldTagElement(n, options) ==
  LET tagComponents ==
        IF tagComponentsOf(options) = "undefined" THEN TRUE
        ELSE tagComponentsOf(options) = "true"
      decide(elementName) ==
        IF isHtmlTag(elementName) THEN TRUE ELSE tagComponents
  IN  IF n.name.type = "JSXIdentifier" THEN decide(n.name.name)
      ELSE IF n.name.type = "JSXMemberExpression" THEN FALSE
      ELSE IF n.name.type = "JSXNamespacedName" THEN decide(n.name.namespace.name)
      ELSE FALSE

createPathAttribute(attributeName, relativeFilename, line, column) ==
  LET value == formatComponentPathValue(relativeFilename, line, column)
  IN  [type  |-> "JSXAttribute",
       name  |-> [type |-> "JSXIdentifier", name |-> attributeName],
       value |-> [type |-> "StringLiteral", value |-> value]]

\* mutant: an attribute of that name counts only if it holds this visit's value
processJsxElement_ExistsSameValue(n, ctx) ==
  IF n.loc.kind \in {"null", "undefined"} THEN [node |-> n, ret |-> FALSE]
  ELSE LET attr == createPathAttribute(ctx.attributeName, ctx.relativeFilename,
                                       n.loc.start.line, n.loc.start.column)
       IN  IF \E i \in 1..Len(n.attributes) : n.attributes[i] = attr
           THEN [node |-> n, ret |-> FALSE]
           ELSE IF ~shouldTagElement(n, ctx.options) THEN [node |-> n, ret |-> FALSE]
           ELSE [node |-> [n EXCEPT !.attributes = Append(@, attr)], ret |-> TRUE]

\* mutant: a node that already carries the attribute is reported as tagged
processJsxElement_TrueOnExisting(n, ctx) ==
  IF n.loc.kind \in {"null", "undefined"} THEN [node |-> n, ret |-> FALSE]
  ELSE IF attrExists(n, ctx.attributeName) THEN [node |-> n, ret |-> TRUE]
  ELSE IF ~shouldTagElement(n, ctx.options) THEN [node |-> n, ret |-> FALSE]
  ELSE LET attr == createPathAttribute(ctx.attributeName, ctx.relativeFilename,
                                       n.loc.start.line, n.loc.start.column)
       IN  [node |-> [n EXCEPT !.attributes = Append(@, attr)], ret |-> TRUE]

\* mutant: the idempotency check is missing
processJsxElement_NoExistsCheck(n, ctx) ==
  IF n.loc.kind \in {"null", "undefined"} THEN [node |-> n, ret |-> FALSE]
  ELSE IF ~shouldTagElement(n, ctx.options) THEN [node |-> n, ret |-> FALSE]
  ELSE LET attr == createPathAttribute(ctx.attributeName, ctx.relativeFilename,
                                       n.loc.start.line, n.loc.start.column)
       IN  [node |-> [n EXCEPT !.attributes = Append(@, attr)], ret |-> TRUE]

\* mutant: the attribute is inserted at the front (unshift instead of push)
processJsxElement_Unshift(n, ctx) ==
  IF n.loc.kind \in {"null", "undefined"} THEN [node |-> n, ret |-> FALSE]
  ELSE IF attrExists(n, ctx.attributeName) THEN [node |-> n, ret |-> FALSE]
  ELSE IF ~shouldTagElement(n, ctx.options) THEN [node |-> n, ret |-> FALSE]
  ELSE LET attr == createPathAttribute(ctx.attributeName, ctx.relativeFilename,
                                       n.loc.start.line, n.loc.start.column)
       IN  [node |-> [n EXCEPT !.attributes = <<attr>> \o @], ret |-> TRUE]

\* mutant: a missing location is replaced by position 0:0 instead of skipping
processJsxElement_NoLocCheck(n, ctx) ==
  IF attrExists(n, ctx.attributeName) THEN [node |-> n, ret |-> FALSE]
  ELSE IF ~shouldTagElement(n, ctx.options) THEN [node |-> n, ret |-> FALSE]
  ELSE LET start == IF n.loc.kind = "loc" THEN n.loc.start
                    ELSE [line |-> 0, column |-> 0]
           attr == createPathAttribute(ctx.attributeName, ctx.relativeFilename,
                                       start.line, start.column)
       IN  [node |-> [n EXCEPT !.attributes = Append(@, attr)], ret |-> TRUE]

\* mutant: the position is read from loc.end
processJsxElement_LocEnd(n, ctx) ==
  IF n.loc.kind \in {"null", "undefined"} THEN [node |-> n, ret |-> FALSE]
  ELSE IF attrExists(n, ctx.attributeName) THEN [node |-> n, ret |-> FALSE]
  ELSE IF ~shouldTagElement(n, ctx.options) THEN [node |-> n, ret |-> FALSE]
  ELSE LET attr == createPathAttribute(ctx.attributeName, ctx.relativeFilename,
                                       n.loc.end.line, n.loc.end.column)
       IN  [node |-> [n EXCEPT !.attributes = Append(@, attr)], ret |-> TRUE]

\* processJsxElement mutates node and returns a boolean; the model returns
\* the node after the call together with the return value.
processJsxElement(n, ctx) ==
  IF n.loc.kind \in {"null", "undefined"} THEN [node |-> n, ret |-> FALSE]
  ELSE IF attrExists(n, ctx.attributeName) THEN [node |-> n, ret |-> FALSE]
  ELSE IF ~shouldTagElement(n, ctx.options) THEN [node |-> n, ret |-> FALSE]
  ELSE LET line == n.loc.start.line
           column == n.loc.start.column
           attr == createPathAttribute(ctx.attributeName, ctx.relativeFilename, line, column)
       IN  [node |-> [n EXCEPT !.attributes = Append(@, attr)], ret |-> TRUE]

(***************************************************************************)
(* node:path (POSIX), as used through the Path service                     *)
(***************************************************************************)

\* the non-empty segments of p between "/" characters
RECURSIVE splitPath(_, _, _, _)
splitPath(p, i, cur, acc) ==
  IF i > Len(p) THEN (IF cur = <<>> THEN acc ELSE Append(acc, cur))
  ELSE IF p[i] = 47
       THEN splitPath(p, i + 1, <<>>, IF cur = <<>> THEN acc ELSE Append(acc, cur))
       ELSE splitPath(p, i + 1, Append(cur, p[i]), acc)

\* resolution of "." and ".." segments of an absolute path
RECURSIVE normalizeSegments(_, _)
normalizeSegments(segs, acc) ==
  IF segs = <<>> THEN acc
  ELSE LET seg == Head(segs)
       IN  IF seg = <<46>> THEN normalizeSegments(Tail(segs), acc)
           ELSE IF seg = <<46, 46>>
                THEN normalizeSegments(Tail(segs),
                       IF acc = <<>> THEN acc ELSE SubSeq(acc, 1, Len(acc) - 1))
                ELSE normalizeSegments(Tail(segs), Append(acc, seg))

\* path.resolve(p): the segments of the absolute path p denotes; a relative
\* or empty p is taken from the process working directory cwd
pathResolve(p, cwd) ==
  IF p # <<>> /\ p[1] = 47
  THEN normalizeSegments(splitPath(p, 1, <<>>, <<>>), <<>>)
  ELSE normalizeSegments(splitPath(cwd, 1, <<>>, <<>>) \o splitPath(p, 1, <<>>, <<>>), <<>>)

RECURSIVE commonPrefixLength(_, _)
commonPrefixLength(a, b) ==
  IF a = <<>> \/ b = <<>> \/ Head(a) # Head(b) THEN 0
  ELSE 1 + commonPrefixLength(Tail(a), Tail(b))

RECURSIVE joinPath(_)
joinPath(segs) ==
  IF segs = <<>> THEN <<>>
  ELSE IF Len(segs) = 1 THEN Head(segs)
  ELSE Head(segs) \o <<47>> \o joinPath(Tail(segs))

\* path.relative(from, to)
pathRelative(from, to, cwd) ==
  LET f == pathResolve(from, cwd)
      t == pathResolve(to, cwd)
      k == commonPrefixLength(f, t)
      ups == [i \in 1..(Len(f) - k) |-> <<46, 46>>]
  IN  joinPath(ups \o SubSeq(t, k + 1, Len(t)))

\* relativeFromRoot / computeRelativePath: Path.relative run to completion
computeRelativePath(rootDir, filename, cwd) == pathRelative(rootDir, filename, cwd)

(***************************************************************************)
(* shell/babel-plugin.ts: the standalone compiler plugin                   *)
(***************************************************************************)
Undefined == [kind |-> "undefined"]
Str(s) == [kind |-> "string", value |-> s]

\* a ?? b
Nullish(a, b) == IF a.kind = "undefined" THEN b ELSE a
\* a || b, for strings
Falsy(a, b) == IF a.kind = "undefined" \/ a.value = <<>> THEN b ELSE a

\* state.opts?.rootDir
optsRootDir(state) ==
  IF state.opts.kind = "undefined" THEN Undefined ELSE state.opts.rootDir

\* the effective attribute name of the compiler plugin: option or default
pluginAttributeName(state) ==
  IF state.opts.kind = "undefined" THEN componentPathAttributeName
  ELSE Nullish(state.opts.attributeName, Str(componentPathAttributeName)).value

\* the tagging options of the compiler plugin: the tagComponents option
pluginTaggerOptions(state) ==
  IF state.opts.kind = "undefined" THEN [kind |-> "undefined"]
  ELSE [kind |-> "object", tagComponents |-> state.opts.tagComponents]

\* mutant: the compiler working directory wins over the rootDir option
resolveRootDir_CwdFirst(state) ==
  Nullish(state.cwd, Nullish(optsRootDir(state), Str(<<>>))).value

\* state.opts?.rootDir ?? state.cwd ?? ""
resolveRootDir(state) ==
  Nullish(optsRootDir(state), Nullish(state.cwd, Str(<<>>))).value

\* mutant: the file check is missing
getContextFromState_NoFileCheck(state, cwd) ==
  IF state.filename.kind = "undefined" THEN [kind |-> "null"]
  ELSE [kind |-> "context",
        value |-> [relativeFilename |->
                     computeRelativePath(resolveRootDir(state), state.filename.value, cwd),
                   attributeName |-> pluginAttributeName(state),
                   options |-> pluginTaggerOptions(state)]]

getContextFromState(state, cwd) ==
  LET filename == state.filename
  IN  IF filename.kind = "undefined" THEN [kind |-> "null"]
      ELSE IF ~isJsxFile(filename.value) THEN [kind |-> "null"]
      ELSE LET rootDir == resolveRootDir(state)
               relativeFilename == computeRelativePath(rootDir, filename.value, cwd)
           IN  [kind |-> "context",
                value |-> [relativeFilename |-> relativeFilename,
                           attributeName |-> pluginAttributeName(state),
                           options |-> pluginTaggerOptions(state)]]

\* createJsxTaggerVisitor(getContext).JSXOpeningElement(nodePath, state)
visitJSXOpeningElement(n, ctx) ==
  IF ctx.kind = "null" THEN [node |-> n, ret |-> FALSE]
  ELSE processJsxElement(n, ctx.value)

(***************************************************************************)
(* babel.cjs: the CommonJS shim                                            *)
(***************************************************************************)
\* mutant: /\.(tsx|jsx)$/u, without the optional query
shimIsJsxFile_NoQuery(id) ==
  \E i \in 1..Len(id) :
    /\ i + 3 = Len(id)
    /\ id[i] = 46
    /\ SubSeq(id, i + 1, i + 3) \in jsxExtensions

\* jsxFilePattern.test(id) with the shim's own /\.(tsx|jsx)(\?.*)?$/u
shimIsJsxFile(id) ==
  \E i \in 1..Len(id) :
    /\ i + 3 <= Len(id)
    /\ id[i] = 46
    /\ SubSeq(id, i + 1, i + 3) \in jsxExtensions
    /\ \/ i + 3 = Len(id)
       \/ /\ i + 4 <= Len(id)
          /\ id[i + 4] = 63
          /\ \A k \in (i + 5)..Len(id) : id[k] \notin LineTerminators

\* opts.rootDir || state.cwd || process.cwd()
shimRootDir(state, cwd) ==
  Falsy(optsRootDir(state), Falsy(state.cwd, Str(cwd))).value

\* opts.attributeName || componentPathAttributeName
shimAttributeName(state) ==
  IF state.opts.kind = "undefined" THEN componentPathAttributeName
  ELSE Falsy(state.opts.attributeName, Str(componentPathAttributeName)).value

\* mutant: the shim applies the tagComponents policy of the core
shimVisit_WithPolicy(n, state, cwd) ==
  visitJSXOpeningElement(n, getContextFromState(state, cwd)).node

\* the shim's JSXOpeningElement visitor; yields the node after the visit
shimVisit(n, state, cwd) ==
  IF state.filename.kind = "undefined" THEN n
  ELSE IF n.loc.kind \in {"null", "undefined"} THEN n
  ELSE IF ~shimIsJsxFile(state.filename.value) THEN n
  ELSE LET rootDir == shimRootDir(state, cwd)
           attributeName == shimAttributeName(state)
           relativeFilename == pathRelative(rootDir, state.filename.value, cwd)
       IN  IF attrExists(n, attributeName) THEN n
           ELSE LET value == formatComponentPathValue(relativeFilename,
                                n.loc.start.line, n.loc.start.column)
                IN  [n EXCEPT !.attributes = Append(@,
                       [type  |-> "JSXAttribute",
                        name  |-> [type |-> "JSXIdentifier", name |-> attributeName],
                        value |-> [type |-> "StringLiteral", value |-> value]])]

(***************************************************************************)
(* shell/component-tagger.ts: the dev-server plugin.  A module's code is   *)
(* modelled as the sequence of its opening elements in source order.       *)
(***************************************************************************)
Null == [kind |-> "null"]

babelTransformFailed ==
  <<66, 97, 98, 101, 108, 32, 116, 114, 97, 110, 115, 102, 111, 114, 109, 32,
    102, 97, 105, 108, 101, 100>>

\* String(cause) of a rejection value that is not an Error
StringOf(cause) ==
  IF cause.kind = "string" THEN cause.value
  ELSE <<117, 110, 100, 101, 102, 105, 110, 101, 100>>

\* mutant: a null map is kept only when the compiler gave null
toViteResult_MapUnchecked(result) ==
  IF result.kind = "null" \/ result.code.kind \in {"null", "undefined"}
  THEN Null
  ELSE [kind |-> "object", code |-> result.code.value, map |-> result.map]

toViteResult(result) ==
  IF result.kind = "null" \/ result.code.kind = "null" \/ result.code.kind = "undefined"
  THEN Null
  ELSE LET code == result.code.value
       IN  [kind |-> "object", code |-> code, map |-> Nullish(result.map, Null)]

\* mutant: the options are not bound into the context
makeBabelTagger_NoOptions(relativeFilename, attributeName, options) ==
  [kind |-> "context",
   value |-> [relativeFilename |-> relativeFilename,
              attributeName |-> attributeName,
              options |-> [kind |-> "undefined"]]]

\* the context the tagger plugin of one transform is bound to
makeBabelTagger(relativeFilename, attributeName, options) ==
  [kind |-> "context",
   value |-> [relativeFilename |-> relativeFilename,
              attributeName |-> attributeName,
              options |-> options]]

\* mutant: the traversal stops after the first node
traverse_FirstOnly(tree, tagger) ==
  [i \in 1..Len(tree) |->
     IF i = 1 /\ tree[i].type = "JSXOpeningElement"
     THEN visitJSXOpeningElement(tree[i], tagger).node
     ELSE tree[i]]

\* the compiler's traversal of a tree with the tagger's visitor: the visitor
\* has one key, JSXOpeningElement, so nodes of other types are passed by
traverse(tree, tagger) ==
  [i \in 1..Len(tree) |->
     IF tree[i].type = "JSXOpeningElement"
     THEN visitJSXOpeningElement(tree[i], tagger).node
     ELSE tree[i]]

\* the code a successful transformAsync(code, { plugins: [tagger] }) emits:
\* the visitor has run on every opening element
transformAsync(code, tagger) == traverse(code, tagger)

\* mutant: a rejection value that is not an Error is not converted
tryPromiseCatch_NoConversion(cause) ==
  [kind |-> "error",
   error |-> [tag |-> "ComponentTaggerError",
              message |-> babelTransformFailed,
              cause |-> cause]]

\* the catch of Effect.tryPromise
tryPromiseCatch(cause) ==
  LET error == IF cause.kind = "Error" THEN cause
               ELSE [kind |-> "Error", message |-> StringOf(cause)]
  IN  [kind |-> "error",
       error |-> [tag |-> "ComponentTaggerError",
                  message |-> babelTransformFailed,
                  cause |-> error]]

\* mutant: the default name is used whatever the options say
taggerAttributeName_Default(options) == componentPathAttributeName

\* options?.attributeName ?? componentPathAttributeName
taggerAttributeName(options) ==
  IF options.kind = "undefined" THEN componentPathAttributeName
  ELSE Nullish(options.attributeName, Str(componentPathAttributeName)).value

\* options ? { tagComponents: options.tagComponents } : undefined
taggerJsxOptions(options) ==
  IF options.kind = "undefined" THEN [kind |-> "undefined"]
  ELSE [kind |-> "object",
        tagComponents |-> IF options.tagComponents = "absent" THEN "undefined"
                          ELSE options.tagComponents]

\* mutant: the compiler is invoked a second time
runTransform_InvokesTwice(code, id, rootDir, attributeName, options, cwd) ==
  LET cleanId == normalizeModuleId(id)
      relative == pathRelative(rootDir, cleanId, cwd)
  IN  [id |-> id, code |-> code, status |-> "pending", rootDir |-> Str(rootDir),
       filename |-> Str(cleanId), relative |-> Str(relative),
       tagger |-> makeBabelTagger(relative, attributeName, options),
       compilerCalls |-> 2, outcome |-> [kind |-> "none"]]

\* runTransform up to the compiler invocation: the pending request
runTransform(code, id, rootDir, attributeName, options, cwd) ==
  LET cleanId == normalizeModuleId(id)
      relative == pathRelative(rootDir, cleanId, cwd)
  IN  [id |-> id, code |-> code, status |-> "pending", rootDir |-> Str(rootDir),
       filename |-> Str(cleanId), relative |-> Str(relative),
       tagger |-> makeBabelTagger(relative, attributeName, options),
       compilerCalls |-> 1, outcome |-> [kind |-> "none"]]

\* mutant: the file check is missing
transform_NoFileCheck(code, id, root, options, cwd) ==
  runTransform(code, id, root, taggerAttributeName(options),
               taggerJsxOptions(options), cwd)

\* mutant: the process working directory is used instead of the captured root
transform_ProcessCwd(code, id, root, options, cwd) ==
  IF ~isJsxFile(id)
  THEN [id |-> id, code |-> code, status |-> "returned", rootDir |-> Undefined,
        filename |-> Undefined, relative |-> Undefined, tagger |-> Null,
        compilerCalls |-> 0, outcome |-> [kind |-> "value", value |-> Null]]
  ELSE runTransform(code, id, cwd, taggerAttributeName(options),
                    taggerJsxOptions(options), cwd)

\* componentTagger(options): the state closed over by the hooks of one
\* instance (rootWrites is the history of the roots its configResolved set)
componentTagger(options, cwd) ==
  [options |-> options, resolvedRoot |-> cwd, rootWrites |-> <<>>]

\* mutant: the root is one variable of the module, shared by all instances
configResolved_SharedRoot(insts, j, root) ==
  [k \in DOMAIN insts |->
     IF k = j
     THEN [insts[k] EXCEPT !.resolvedRoot = root, !.rootWrites = Append(@, root)]
     ELSE [insts[k] EXCEPT !.resolvedRoot = root]]

\* configResolved(config) of instance j: resolvedRoot = config.root
configResolved(insts, j, root) ==
  [insts EXCEPT ![j].resolvedRoot = root, ![j].rootWrites = Append(@, root)]

\* the transform hook of the plugin built by componentTagger(options), with
\* the captured root as it is at the call
transform(code, id, root, options, cwd) ==
  IF ~isJsxFile(id)
  THEN [id |-> id, code |-> code, status |-> "returned", rootDir |-> Undefined,
        filename |-> Undefined, relative |-> Undefined, tagger |-> Null,
        compilerCalls |-> 0, outcome |-> [kind |-> "value", value |-> Null]]
  ELSE runTransform(code, id, root, taggerAttributeName(options),
                    taggerJsxOptions(options), cwd)

(***************************************************************************)
(* Inputs                                                                  *)
(***************************************************************************)
JsxIdentifier(s) == [type |-> "JSXIdentifier", name |-> s]

\* element names: div, App, _c; svg:path, Foo:bar; Foo.Bar, motion.div; and a
\* name construct of a type the tagger does not know
ElementNames ==
  { JsxIdentifier(<<100, 105, 118>>),
    JsxIdentifier(<<65, 112, 112>>),
    JsxIdentifier(<<95, 99>>),
    [type |-> "JSXNamespacedName",
     namespace |-> JsxIdentifier(<<115, 118, 103>>),
     name |-> JsxIdentifier(<<112, 97, 116, 104>>)],
    [type |-> "JSXNamespacedName",
     namespace |-> JsxIdentifier(<<70, 111, 111>>),
     name |-> JsxIdentifier(<<98, 97, 114>>)],
    [type |-> "JSXMemberExpression",
     object |-> JsxIdentifier(<<70, 111, 111>>),
     property |-> JsxIdentifier(<<66, 97, 114>>)],
    [type |-> "JSXMemberExpression",
     object |-> JsxIdentifier(<<109, 111, 116, 105, 111, 110>>),
     property |-> JsxIdentifier(<<100, 105, 118>>)],
    [type |-> "Unknown"] }

\* a hand-written attribute value "v", not of the path:line:column format
HandWritten == [type |-> "StringLiteral", value |-> <<118>>]

\* attributes an element may carry before tagging: data-path="v",
\* custom-path="v", id="v", data:path="v" and a spread {...props}
ExistingAttributes ==
  { [type |-> "JSXAttribute", name |-> JsxIdentifier(componentPathAttributeName),
     value |-> HandWritten],
    [type |-> "JSXAttribute", name |-> JsxIdentifier(customPathAttributeName),
     value |-> HandWritten],
    [type |-> "JSXAttribute", name |-> JsxIdentifier(idAttributeName),
     value |-> HandWritten],
    [type |-> "JSXAttribute",
     name |-> [type |-> "JSXNamespacedName",
               namespace |-> JsxIdentifier(<<100, 97, 116, 97>>),
               name |-> JsxIdentifier(<<112, 97, 116, 104>>)],
     value |-> HandWritten],
    [type |-> "JSXSpreadAttribute", argument |-> <<112, 114, 111, 112, 115>>] }

AttributeLists == UNION { [1..n -> ExistingAttributes] : n \in 0..MaxAttrs }

Lines == {1, MaxLine}
Columns == {0, MaxCol}
Positions == [line : Lines, column : Columns]

\* node.loc: null, undefined, or a SourceLocation whose own filename is the
\* absolute "/r/src/A.tsx"
Locations ==
  { [kind |-> "null"], [kind |-> "undefined"] } \cup
  { [kind |-> "loc", start |-> s, end |-> e,
     filename |-> <<47, 114, 47, 115, 114, 99, 47, 65, 46, 116, 115, 120>>] :
      s \in Positions, e \in Positions }

Nodes ==
  { [type |-> "JSXOpeningElement", name |-> nm, attributes |-> as, loc |-> l] :
      nm \in ElementNames, as \in AttributeLists, l \in Locations }

\* JsxTaggerOptions | undefined
Options ==
  { [kind |-> "undefined"] } \cup
  { [kind |-> "object", tagComponents |-> tc] :
      tc \in {"absent", "undefined", "true", "false"} }

\* relative filenames "src/A.tsx" and "B.jsx"
RelativeFilenames ==
  { <<115, 114, 99, 47, 65, 46, 116, 115, 120>>, <<66, 46, 106, 115, 120>> }

AttributeNames == { componentPathAttributeName, customPathAttributeName }

Contexts ==
  [relativeFilename : RelativeFilenames, attributeName : AttributeNames, options : Options]

\* characters of module ids: . t s x j ? T and a line feed
IdChars == {46, 116, 115, 120, 106, 63, 84, 10}
\* first characters around the a-z range, and A 0 _ $
NameChars == {96, 97, 122, 123, 65, 48, 95, 36}

Strings(chars, maxLen) == UNION { [1..n -> chars] : n \in 0..maxLen }

StringInputs == Strings(IdChars, MaxIdLen) \cup Strings(NameChars, MaxNameLen)

\* nodes for the eligibility predicate, which reads the name only
PredicateNodes ==
  { [type |-> "JSXOpeningElement", name |-> nm, attributes |-> as, loc |-> l] :
      nm \in ElementNames,
      as \in Strings(ExistingAttributes, 1),
      l \in { [kind |-> "null"] } \cup
            { [kind |-> "loc", start |-> s, end |-> s, filename |-> <<>>] : s \in Positions } }

(***************************************************************************)
(* Specification of the per-element tagging                                *)
(***************************************************************************)
NoString == <<>>

NoNumbers == [line |-> 1, column |-> 0]

\* no integration is loaded: the host-side variables keep these values
HostIdle ==
  /\ entry = "none"
  /\ pluginState = [filename |-> [kind |-> "undefined"],
                    cwd |-> [kind |-> "undefined"],
                    opts |-> [kind |-> "undefined"]]
  /\ processCwd = NoString
  /\ ctxResult = [kind |-> "none"]
  /\ pluginOptions = [kind |-> "undefined"]
  /\ resolvedRoot = NoString
  /\ rootWrites = <<>>
  /\ transforms = <<>>
  /\ file = <<>>
  /\ instances = <<>>

Init ==
  /\ node \in Nodes
  /\ context \in Contexts
  /\ ret = FALSE
  /\ orig = node.attributes
  /\ prev = node.attributes
  /\ calls = 0
  /\ arg = NoString
  /\ res = FALSE
  /\ fn = "none"
  /\ num = NoNumbers
  /\ HostIdle

\* the visitor hands the node to processJsxElement
ProcessElement ==
  /\ calls < MaxCalls
  /\ LET r == processJsxElement(node, context)
     IN  /\ node' = r.node
         /\ ret' = r.ret
  /\ prev' = node.attributes
  /\ calls' = calls + 1
  /\ UNCHANGED <<context, orig, arg, res, fn, num, hostVars>>

Next == ProcessElement

Spec == Init /\ [][Next]_vars

(***************************************************************************)
(* Specification of the eligibility predicate                              *)
(***************************************************************************)
InitTag ==
  /\ node \in PredicateNodes
  /\ context \in Contexts
  /\ ret = FALSE
  /\ orig = node.attributes
  /\ prev = node.attributes
  /\ calls = 0
  /\ arg = NoString
  /\ res = FALSE
  /\ fn = "none"
  /\ num = NoNumbers
  /\ HostIdle

CallShouldTagElement ==
  /\ fn = "none"
  /\ res' = shouldTagElement(node, context.options)
  /\ fn' = "shouldTagElement"
  /\ UNCHANGED <<node, context, ret, orig, prev, calls, arg, num, hostVars>>

NextTag == CallShouldTagElement

SpecTag == InitTag /\ [][NextTag]_vars

(***************************************************************************)
(* Specification of the pure string functions                              *)
(***************************************************************************)
InitStr ==
  /\ node = [type |-> "JSXOpeningElement", name |-> JsxIdentifier(<<100, 105, 118>>),
             attributes |-> <<>>, loc |-> [kind |-> "null"]]
  /\ context = [relativeFilename |-> NoString,
                attributeName |-> componentPathAttributeName,
                options |-> [kind |-> "undefined"]]
  /\ ret = FALSE
  /\ orig = <<>>
  /\ prev = <<>>
  /\ calls = 0
  /\ arg \in StringInputs
  /\ res = FALSE
  /\ fn = "none"
  /\ num = NoNumbers
  /\ HostIdle

CallIsHtmlTag ==
  /\ fn = "none"
  /\ res' = isHtmlTag(arg)
  /\ fn' = "isHtmlTag"
  /\ UNCHANGED <<node, context, ret, orig, prev, calls, arg, num, hostVars>>

CallIsJsxFile ==
  /\ fn = "none"
  /\ res' = isJsxFile(arg)
  /\ fn' = "isJsxFile"
  /\ UNCHANGED <<node, context, ret, orig, prev, calls, arg, num, hostVars>>

CallNormalizeModuleId ==
  /\ fn = "none"
  /\ res' = normalizeModuleId(arg)
  /\ fn' = "normalizeModuleId"
  /\ UNCHANGED <<node, context, ret, orig, prev, calls, arg, num, hostVars>>

\* the shim's own isJsxFile
CallShimIsJsxFile ==
  /\ fn = "none"
  /\ res' = shimIsJsxFile(arg)
  /\ fn' = "shimIsJsxFile"
  /\ UNCHANGED <<node, context, ret, orig, prev, calls, arg, num, hostVars>>

NextStr == CallIsHtmlTag \/ CallIsJsxFile \/ CallNormalizeModuleId \/ CallShimIsJsxFile

SpecStr == InitStr /\ [][NextStr]_vars

(***************************************************************************)
(* Specification of the compiler integrations: the standalone compiler     *)
(* plugin and the CommonJS shim visit one opening element of a file        *)
(***************************************************************************)
\* directories "/r" and "/w"; the process working directory is "/p"
Directories == { <<47, 114>>, <<47, 119>> }
ProcessCwds == { <<47, 112>> }

\* state.filename: undefined, "/r/A.tsx", "/r/A.tsx?v", "/w/b.ts" and
\* "/p/s/B.jsx"
Filenames ==
  { Undefined,
    Str(<<47, 114, 47, 65, 46, 116, 115, 120>>),
    Str(<<47, 114, 47, 65, 46, 116, 115, 120, 63, 118>>),
    Str(<<47, 119, 47, 98, 46, 116, 115>>),
    Str(<<47, 112, 47, 115, 47, 66, 46, 106, 115, 120>>) }

\* an optional directory: not supplied, "" or one of the directories
OptionalDirectories == { Undefined, Str(<<>>) } \cup { Str(d) : d \in Directories }

\* state.opts: undefined or { rootDir?, attributeName?, tagComponents? }
PluginOpts ==
  { Undefined } \cup
  { [kind |-> "object", rootDir |-> r, attributeName |-> a, tagComponents |-> tc] :
      r \in OptionalDirectories,
      a \in { Undefined, Str(customPathAttributeName) },
      tc \in {"absent", "true", "false"} }

BabelStates == [filename : Filenames, cwd : OptionalDirectories, opts : PluginOpts]

\* opening elements <div>, <App>, <svg:path> and <Foo.Bar>, bare or already
\* carrying data-path, custom-path, or a spread and an id
HostElementNames ==
  { nm \in ElementNames :
      \/ /\ nm.type = "JSXIdentifier"
         /\ nm.name \in { <<100, 105, 118>>, <<65, 112, 112>> }
      \/ /\ nm.type = "JSXNamespacedName" /\ nm.namespace.name = <<115, 118, 103>>
      \/ /\ nm.type = "JSXMemberExpression" /\ nm.object.name = <<70, 111, 111>> }

HostAttributeLists ==
  { <<>> } \cup
  { <<a>> : a \in { x \in ExistingAttributes :
                      /\ x.type = "JSXAttribute"
                      /\ x.name.type = "JSXIdentifier"
                      /\ x.name.name \in AttributeNames } } \cup
  { <<a, b>> : a \in { x \in ExistingAttributes : x.type = "JSXSpreadAttribute" },
               b \in { x \in ExistingAttributes :
                         /\ x.type = "JSXAttribute"
                         /\ x.name.type = "JSXIdentifier"
                         /\ x.name.name = idAttributeName } }

HostLocations ==
  { l \in Locations :
      l.kind = "loc" =>
        /\ l.start = [line |-> MaxLine, column |-> MaxCol]
        /\ l.end = [line |-> MaxLine, column |-> 0] }

HostNodes ==
  { [type |-> "JSXOpeningElement", name |-> nm, attributes |-> as, loc |-> l] :
      nm \in HostElementNames, as \in HostAttributeLists, l \in HostLocations }

InitBabel ==
  /\ node \in HostNodes
  /\ context = [relativeFilename |-> NoString,
                attributeName |-> componentPathAttributeName,
                options |-> [kind |-> "undefined"]]
  /\ ret = FALSE
  /\ orig = node.attributes
  /\ prev = node.attributes
  /\ calls = 0
  /\ arg = NoString
  /\ res = FALSE
  /\ fn = "none"
  /\ num = NoNumbers
  /\ entry \in {"babel", "shim"}
  /\ pluginState \in BabelStates
  /\ processCwd \in ProcessCwds
  /\ ctxResult = [kind |-> "none"]
  /\ pluginOptions = [kind |-> "undefined"]
  /\ resolvedRoot = NoString
  /\ rootWrites = <<>>
  /\ transforms = <<>>
  /\ file = <<>>
  /\ instances = <<>>

\* the compiler plugin's visitor reaches the element
VisitCompilerPlugin ==
  /\ entry = "babel"
  /\ calls < MaxCalls
  /\ LET ctx == getContextFromState(pluginState, processCwd)
         r == visitJSXOpeningElement(node, ctx)
     IN  /\ ctxResult' = ctx
         /\ node' = r.node
         /\ ret' = r.ret
  /\ prev' = node.attributes
  /\ calls' = calls + 1
  /\ UNCHANGED <<context, orig, arg, res, fn, num, entry, pluginState, processCwd,
                 pluginOptions, resolvedRoot, rootWrites, transforms, file, instances>>

\* the shim's visitor reaches the element
VisitShim ==
  /\ entry = "shim"
  /\ calls < MaxCalls
  /\ node' = shimVisit(node, pluginState, processCwd)
  /\ prev' = node.attributes
  /\ calls' = calls + 1
  /\ UNCHANGED <<context, ret, orig, arg, res, fn, num, hostVars>>

NextBabel == VisitCompilerPlugin \/ VisitShim

SpecBabel == InitBabel /\ [][NextBabel]_vars

(***************************************************************************)
(* Helpers of the properties                                               *)
(***************************************************************************)
\* number of attributes of the list that are named a
CountNamed(attrs, a) ==
  Cardinality({ i \in 1..Len(attrs) : isNamedAttribute(attrs[i], a) })

IsPrefix(s, t) == Len(s) <= Len(t) /\ SubSeq(t, 1, Len(s)) = s

Contains(s, ch) == \E i \in 1..Len(s) : s[i] = ch

EndsWith(s, suffix) ==
  Len(s) >= Len(suffix) /\ SubSeq(s, Len(s) - Len(suffix) + 1, Len(s)) = suffix

\* s ends in ".tsx" or ".jsx"
EndsInJsxExtension(s) == \E e \in jsxExtensions : EndsWith(s, <<46>> \o e)

\* the node as it was before the first call
OrigNode == [node EXCEPT !.attributes = orig]

\* the node can be tagged under the context: located, not yet carrying the
\* attribute, eligible under the options
Taggable ==
  /\ node.loc.kind = "loc"
  /\ CountNamed(orig, context.attributeName) = 0
  /\ shouldTagElement(node, context.options)

(***************************************************************************)
(* C1: for a located, eligible node without the attribute the first        *)
(* processElement returns true and adds exactly one attribute; the second  *)
(* returns false and leaves the attribute list, and so the added           *)
(* attribute's value, as the first call left it.                           *)
(***************************************************************************)
C1_Idempotency ==
  Taggable =>
    /\ calls = 1 => (ret = TRUE /\ Len(node.attributes) = Len(orig) + 1)
    /\ calls = 2 =>
         /\ ret = FALSE
         /\ Len(prev) = Len(orig) + 1
         /\ Len(node.attributes) = Len(prev)
         /\ node.attributes[Len(prev)].value = prev[Len(prev)].value
         /\ node.attributes = prev

C1_Witness ==
  /\ Taggable
  /\ calls = 2
  /\ ret = FALSE
  /\ Len(orig) >= 1
  /\ Len(node.attributes) = Len(orig) + 1

(***************************************************************************)
(* C2: processElement never removes, alters or reorders an attribute: the  *)
(* attribute list before a call is a prefix of the list after it, and at   *)
(* most one attribute is added, at the end.                                *)
(***************************************************************************)
C2_AppendOnly ==
  calls >= 1 =>
    /\ IsPrefix(prev, node.attributes)
    /\ IsPrefix(orig, node.attributes)
    /\ Len(node.attributes) <= Len(prev) + 1

C2_Witness ==
  /\ calls = 1
  /\ ret = TRUE
  /\ Len(prev) = 2
  /\ prev[1].type = "JSXSpreadAttribute"
  /\ isNamedAttribute(prev[2], customPathAttributeName)
  /\ context.attributeName = componentPathAttributeName
  /\ SubSeq(node.attributes, 1, 2) = prev
  /\ Len(node.attributes) = 3

C4_NoLocation ==
  (calls >= 1 /\ node.loc.kind \in {"null", "undefined"}) =>
    /\ ret = FALSE
    /\ node.attributes = prev
    /\ node.attributes = orig

C4_Witness ==
  /\ calls = 1
  /\ node.loc.kind = "undefined"
  /\ CountNamed(orig, context.attributeName) = 0
  /\ shouldTagElement(node, context.options)
  /\ ret = FALSE
  /\ node.attributes = orig

(***************************************************************************)
(* C5: under options undefined, {}, {tagComponents: true} and              *)
(* {tagComponents: false}: an identifier or namespaced element whose       *)
(* classifying name (identifier, or namespace part) is an HTML tag is      *)
(* always eligible; otherwise it is eligible iff tagComponents is not      *)
(* false; member expressions and unknown name shapes are never eligible.   *)
(***************************************************************************)
ClaimedOptions ==
  { [kind |-> "undefined"],
    [kind |-> "object", tagComponents |-> "absent"],
    [kind |-> "object", tagComponents |-> "true"],
    [kind |-> "object", tagComponents |-> "false"] }

ClassifyingName ==
  IF node.name.type = "JSXIdentifier" THEN node.name.name
  ELSE node.name.namespace.name

C5_Eligibility ==
  (fn = "shouldTagElement" /\ context.options \in ClaimedOptions) =>
    IF node.name.type \in {"JSXIdentifier", "JSXNamespacedName"}
    THEN IF isHtmlTag(ClassifyingName)
         THEN res = TRUE
         ELSE res = (context.options # [kind |-> "object", tagComponents |-> "false"])
    ELSE res = FALSE

C5_Witness ==
  /\ fn = "shouldTagElement"
  /\ node.name.type = "JSXNamespacedName"
  /\ ~isHtmlTag(ClassifyingName)
  /\ context.options = [kind |-> "object", tagComponents |-> "absent"]
  /\ res = TRUE

(***************************************************************************)
(* C6: the attribute appended by a tagging call is named                   *)
(* context.attributeName and its string-literal value is                   *)
(* relativeFilename ":" line ":" column, with line and column of           *)
(* loc.start written as plain decimal numerals.                            *)
(***************************************************************************)
RECURSIVE NumeralValue(_)
NumeralValue(d) ==
  IF Len(d) = 0 THEN 0
  ELSE 10 * NumeralValue(SubSeq(d, 1, Len(d) - 1)) + (d[Len(d)] - 48)

\* the decimal numeral of n: the digit string without leading zero that
\* denotes n
Numeral ==
  [n \in Lines \cup Columns |->
     CHOOSE d \in Strings(48..57, 2) :
       /\ Len(d) >= 1
       /\ NumeralValue(d) = n
       /\ (Len(d) > 1 => d[1] # 48)]

C6_Payload ==
  (calls >= 1 /\ ret = TRUE) =>
    LET added == node.attributes[Len(node.attributes)]
    IN  /\ added.type = "JSXAttribute"
        /\ added.name = JsxIdentifier(context.attributeName)
        /\ added.value.type = "StringLiteral"
        /\ added.value.value =
             context.relativeFilename \o <<58>> \o Numeral[node.loc.start.line]
               \o <<58>> \o Numeral[node.loc.start.column]

C6_Witness ==
  /\ calls = 1
  /\ ret = TRUE
  /\ node.loc.start.line = MaxLine
  /\ node.loc.end.line # node.loc.start.line
  /\ node.loc.end.column # node.loc.start.column
  /\ node.loc.filename # context.relativeFilename
  /\ Len(node.attributes[Len(node.attributes)].value.value)
       = Len(context.relativeFilename) + 5

(***************************************************************************)
(* C7 as stated: when tagComponents is not specified, processElement tags  *)
(* every located element that does not carry the attribute yet, whatever   *)
(* the form of its name (HTML tag, Component, namespaced name, member      *)
(* expression).                                                            *)
(***************************************************************************)
C7_DefaultTagsAll ==
  ( /\ calls = 1
    /\ tagComponentsOf(context.options) = "undefined"
    /\ node.name.type \in {"JSXIdentifier", "JSXNamespacedName", "JSXMemberExpression"}
    /\ node.loc.kind = "loc"
    /\ CountNamed(orig, context.attributeName) = 0 ) =>
      /\ ret = TRUE
      /\ Len(node.attributes) = Len(orig) + 1

(***************************************************************************)
(* C8: isHtmlTag(s) is true iff s is non-empty and its first character is  *)
(* one of a..z (code points 97 to 122); the result is the same for all     *)
(* strings that share the first character.                                 *)
(***************************************************************************)
C8_Classification ==
  fn = "isHtmlTag" =>
    /\ res = (arg # <<>> /\ arg[1] \in 97..122)
    /\ arg = <<>> => res = FALSE
    /\ \A s \in Strings(NameChars, MaxNameLen) :
         (s # <<>> /\ arg # <<>> /\ s[1] = arg[1]) => isHtmlTag(s) = res

C8_Witness ==
  /\ fn = "isHtmlTag"
  /\ Len(arg) = 2
  /\ arg[1] = 122
  /\ arg[2] = 65
  /\ res = TRUE

(***************************************************************************)
(* C9 as stated: isJsxFile(id) is true iff the path portion of id, that    *)
(* is normalizeModuleId(id), ends in ".tsx" or ".jsx".                     *)
(***************************************************************************)
C9_FileEligibility ==
  fn = "isJsxFile" => res = EndsInJsxExtension(normalizeModuleId(arg))

(***************************************************************************)
(* C10: normalizeModuleId(id) is the prefix of id before its first "?":    *)
(* the whole id when it has none, empty when id starts with "?"; the       *)
(* result holds no "?" and normalizing it again changes nothing.           *)
(***************************************************************************)
C10_Normalization ==
  fn = "normalizeModuleId" =>
    /\ IsPrefix(res, arg)
    /\ ~Contains(res, 63)
    /\ Len(res) < Len(arg) => arg[Len(res) + 1] = 63
    /\ ~Contains(arg, 63) => res = arg
    /\ (arg # <<>> /\ arg[1] = 63) => res = <<>>
    /\ normalizeModuleId(res) = res

C10_Witness ==
  /\ fn = "normalizeModuleId"
  /\ Len(arg) = 5
  /\ arg[3] = 63
  /\ arg[5] = 63
  /\ res = SubSeq(arg, 1, 2)

(***************************************************************************)
(* Specification of the payload formatter                                  *)
(***************************************************************************)
MaxFmtLine == 21
MaxFmtCol == 11
MaxFmtNameLen == 2

\* characters of formatted filenames: a : / 1
FmtChars == {97, 58, 47, 49}

InitFmt ==
  /\ node = [type |-> "JSXOpeningElement", name |-> JsxIdentifier(<<100, 105, 118>>),
             attributes |-> <<>>, loc |-> [kind |-> "null"]]
  /\ context = [relativeFilename |-> NoString,
                attributeName |-> componentPathAttributeName,
                options |-> [kind |-> "undefined"]]
  /\ ret = FALSE
  /\ orig = <<>>
  /\ prev = <<>>
  /\ calls = 0
  /\ arg \in Strings(FmtChars, MaxFmtNameLen)
  /\ res = FALSE
  /\ fn = "none"
  /\ num \in [line : 1..MaxFmtLine, column : 0..MaxFmtCol]
  /\ HostIdle

CallFormatComponentPathValue ==
  /\ fn = "none"
  /\ res' = formatComponentPathValue(arg, num.line, num.column)
  /\ fn' = "formatComponentPathValue"
  /\ UNCHANGED <<node, context, ret, orig, prev, calls, arg, num, hostVars>>

NextFmt == CallFormatComponentPathValue

SpecFmt == InitFmt /\ [][NextFmt]_vars

(***************************************************************************)
(* C11: formatComponentPathValue(f, l, c) is f, ":", the decimal numeral   *)
(* of l, ":", the decimal numeral of c; the numerals have no padding and   *)
(* no leading zero and f is taken over unchanged.                          *)
(***************************************************************************)
\* the digit string without leading zero that denotes n
DecimalNumeral ==
  [n \in 0..(MaxFmtLine + MaxFmtCol) |->
     CHOOSE d \in Strings(48..57, 2) :
       /\ Len(d) >= 1
       /\ NumeralValue(d) = n
       /\ (Len(d) > 1 => d[1] # 48)]

C11_FormatLaw ==
  fn = "formatComponentPathValue" =>
    LET l == DecimalNumeral[num.line]
        c == DecimalNumeral[num.column]
    IN  /\ res = arg \o <<58>> \o l \o <<58>> \o c
        /\ SubSeq(res, 1, Len(arg)) = arg
        /\ Len(res) = Len(arg) + Len(l) + Len(c) + 2
        /\ NumeralValue(SubSeq(res, Len(arg) + 2, Len(arg) + 1 + Len(l))) = num.line
        /\ NumeralValue(SubSeq(res, Len(res) - Len(c) + 1, Len(res))) = num.column

C11_Witness ==
  /\ fn = "formatComponentPathValue"
  /\ arg = <<97, 58>>
  /\ num = [line |-> 20, column |-> 10]
  /\ res = <<97, 58, 58, 50, 48, 58, 49, 48>>

(***************************************************************************)
(* C12: the compiler plugin computes the relative filename against the     *)
(* rootDir option if it was supplied, otherwise against the compiler's     *)
(* working directory for the file if it is known, otherwise against the    *)
(* process working directory.                                              *)
(***************************************************************************)
ClaimedRoot ==
  IF pluginState.opts.kind = "object" /\ pluginState.opts.rootDir.kind = "string"
  THEN pluginState.opts.rootDir.value
  ELSE IF pluginState.cwd.kind = "string" THEN pluginState.cwd.value
  ELSE processCwd

C12_RootPrecedence ==
  (entry = "babel" /\ ctxResult.kind = "context") =>
    ctxResult.value.relativeFilename =
      pathRelative(ClaimedRoot, pluginState.filename.value, processCwd)

\* rootDir "/w" wins over cwd "/r": "/r/A.tsx" is tagged as "../r/A.tsx"
C12_Witness ==
  /\ entry = "babel" /\ ctxResult.kind = "context"
  /\ pluginState.opts.kind = "object"
  /\ pluginState.opts.rootDir = Str(<<47, 119>>)
  /\ pluginState.cwd = Str(<<47, 114>>)
  /\ pluginState.filename = Str(<<47, 114, 47, 65, 46, 116, 115, 120>>)
  /\ ctxResult.value.relativeFilename = <<46, 46, 47, 114, 47, 65, 46, 116, 115, 120>>

(***************************************************************************)
(* C18: with a defined filename, a visit of the shim appends the attribute *)
(* iff the node has a location, the file is eligible and the node does not *)
(* already carry the attribute, whatever the shape of the element's name   *)
(* and whatever the tagComponents option; otherwise the attribute list is  *)
(* left as it was.                                                         *)
(***************************************************************************)
ShimClaimedAttributeName ==
  IF pluginState.opts.kind = "object" /\ pluginState.opts.attributeName.kind = "string"
  THEN pluginState.opts.attributeName.value
  ELSE componentPathAttributeName

C18_ShimUnconditional ==
  (entry = "shim" /\ calls > 0 /\ pluginState.filename.kind = "string") =>
    LET due == /\ node.loc.kind = "loc"
               /\ shimIsJsxFile(pluginState.filename.value)
               /\ CountNamed(prev, ShimClaimedAttributeName) = 0
    IN  /\ due =>
             /\ Len(node.attributes) = Len(prev) + 1
             /\ SubSeq(node.attributes, 1, Len(prev)) = prev
             /\ node.attributes[Len(node.attributes)].type = "JSXAttribute"
             /\ node.attributes[Len(node.attributes)].name =
                  JsxIdentifier(ShimClaimedAttributeName)
        /\ ~due => node.attributes = prev

\* <Foo.Bar> is tagged under { tagComponents: false }
C18_Witness ==
  /\ entry = "shim" /\ calls = 1
  /\ node.name.type = "JSXMemberExpression"
  /\ pluginState.opts.kind = "object"
  /\ pluginState.opts.tagComponents = "false"
  /\ prev = <<>>
  /\ Len(node.attributes) = 1
  /\ node.attributes[1].name = JsxIdentifier(componentPathAttributeName)

(***************************************************************************)
(* C19 as stated: a filename is eligible for the shim iff the filename     *)
(* itself ends in ".tsx" or ".jsx"; a "?"-query after the extension makes  *)
(* it ineligible.                                                          *)
(***************************************************************************)
C19_ShimStrict_Original ==
  fn = "shimIsJsxFile" => res = EndsInJsxExtension(arg)

(***************************************************************************)
(* C19 amended: a filename is eligible for the shim iff it ends in ".tsx"  *)
(* or ".jsx", optionally followed by a "?"-query holding no line           *)
(* terminator; the shim accepts exactly the filenames the core predicate   *)
(* accepts.                                                                *)
(***************************************************************************)
C19_ShimEligibility ==
  fn = "shimIsJsxFile" =>
    /\ res = \E k \in 0..Len(arg) :
               /\ EndsInJsxExtension(SubSeq(arg, 1, k))
               /\ k < Len(arg) =>
                    /\ arg[k + 1] = 63
                    /\ \A j \in (k + 2)..Len(arg) : arg[j] \notin LineTerminators
    /\ res = isJsxFile(arg)

\* ".tsx?" is eligible
C19_Witness ==
  /\ fn = "shimIsJsxFile"
  /\ arg = <<46, 116, 115, 120, 63>>
  /\ res = TRUE

(***************************************************************************)
(* C20: when the compiler state has no filename, or its filename fails     *)
(* isJsxFile, the context resolver yields no context and the visitor       *)
(* leaves the node's attributes as they were, whatever the options.        *)
(***************************************************************************)
C20_NoContext ==
  (/\ entry = "babel" /\ calls > 0
   /\ \/ pluginState.filename.kind = "undefined"
      \/ ~isJsxFile(pluginState.filename.value)) =>
    /\ ctxResult.kind = "null"
    /\ ret = FALSE
    /\ node.attributes = prev
    /\ node.attributes = orig

\* "/w/b.ts" with rootDir "/w": a located bare <div> stays bare
C20_Witness ==
  /\ entry = "babel" /\ calls = 1
  /\ pluginState.filename = Str(<<47, 119, 47, 98, 46, 116, 115>>)
  /\ pluginState.opts.kind = "object"
  /\ pluginState.opts.rootDir = Str(<<47, 119>>)
  /\ node.loc.kind = "loc"
  /\ node.name = JsxIdentifier(<<100, 105, 118>>)
  /\ ctxResult.kind = "null"
  /\ node.attributes = <<>>

(***************************************************************************)
(* Specification of the dev-server plugin: one plugin instance receives    *)
(* configResolved and transform calls; the compiler settles each pending   *)
(* transform later                                                         *)
(***************************************************************************)
MaxConfigs == 2
MaxTransforms == 1

\* componentTagger(options): undefined or { attributeName?, tagComponents? }
TaggerOptions ==
  { Undefined } \cup
  { [kind |-> "object", attributeName |-> a, tagComponents |-> tc] :
      a \in { Undefined, Str(customPathAttributeName) },
      tc \in {"absent", "true", "false"} }

\* module ids "/r/A.tsx", "/r/A.tsx?v", "/w/b.ts" and "/p/s/B.jsx"
ModuleIds == { f.value : f \in { x \in Filenames : x.kind = "string" } }

Element(nm, as, line, column) ==
  [type |-> "JSXOpeningElement", name |-> nm, attributes |-> as,
   loc |-> [kind |-> "loc",
            start |-> [line |-> line, column |-> column],
            end |-> [line |-> line, column |-> column + 1],
            filename |-> <<47, 114, 47, 115, 114, 99, 47, 65, 46, 116, 115, 120>>]]

\* the modules <div> and <App><div data-path="v"><Foo.Bar custom-path="v">
Codes ==
  { << Element(JsxIdentifier(<<100, 105, 118>>), <<>>, MaxLine, MaxCol) >>,
    << Element(JsxIdentifier(<<65, 112, 112>>), <<>>, 1, 0),
       Element(JsxIdentifier(<<100, 105, 118>>),
               << [type |-> "JSXAttribute",
                   name |-> JsxIdentifier(componentPathAttributeName),
                   value |-> HandWritten] >>, 1, MaxCol),
       Element([type |-> "JSXMemberExpression",
                object |-> JsxIdentifier(<<70, 111, 111>>),
                property |-> JsxIdentifier(<<66, 97, 114>>)],
               << [type |-> "JSXAttribute",
                   name |-> JsxIdentifier(customPathAttributeName),
                   value |-> HandWritten] >>, MaxLine, 0) >> }

\* what a settled transformAsync may hand back: null, or an object whose
\* code is null, undefined or the emitted code, with or without a map
SourceMaps == { Undefined, Null, [kind |-> "object", version |-> 3] }

CompilerResults(emitted) ==
  { Null,
    [kind |-> "object", code |-> Null, map |-> Null],
    [kind |-> "object", code |-> Undefined, map |-> [kind |-> "object", version |-> 3]] } \cup
  { [kind |-> "object", code |-> [kind |-> "string", value |-> emitted], map |-> m] :
      m \in SourceMaps }

\* rejection values: an Error, the string "x" and undefined
RejectionCauses ==
  { [kind |-> "Error", message |-> <<120>>], Str(<<120>>), Undefined }

InitVite ==
  /\ node = [type |-> "JSXOpeningElement", name |-> JsxIdentifier(<<100, 105, 118>>),
             attributes |-> <<>>, loc |-> [kind |-> "null"]]
  /\ context = [relativeFilename |-> NoString,
                attributeName |-> componentPathAttributeName,
                options |-> [kind |-> "undefined"]]
  /\ ret = FALSE
  /\ orig = <<>>
  /\ prev = <<>>
  /\ calls = 0
  /\ arg = NoString
  /\ res = FALSE
  /\ fn = "none"
  /\ num = NoNumbers
  /\ entry = "vite"
  /\ pluginState = [filename |-> Undefined, cwd |-> Undefined, opts |-> Undefined]
  /\ processCwd \in ProcessCwds
  /\ ctxResult = [kind |-> "none"]
  /\ pluginOptions \in TaggerOptions
  /\ resolvedRoot = processCwd
  /\ rootWrites = <<>>
  /\ transforms = <<>>
  /\ file = <<>>
  /\ instances = <<>>

\* configResolved(config): resolvedRoot = config.root
ConfigResolved ==
  /\ entry = "vite"
  /\ Len(rootWrites) < MaxConfigs
  /\ \E root \in Directories :
       /\ resolvedRoot' = root
       /\ rootWrites' = Append(rootWrites, root)
  /\ UNCHANGED <<node, context, ret, orig, prev, calls, arg, res, fn, num, entry,
                 pluginState, processCwd, ctxResult, pluginOptions, transforms, file,
                 instances>>

\* transform(code, id); each request is kept with the number of
\* configResolved calls that preceded it
Transform ==
  /\ entry = "vite"
  /\ Len(transforms) < MaxTransforms
  /\ \E code \in Codes, id \in ModuleIds :
       transforms' = Append(transforms,
                            [request |-> transform(code, id, resolvedRoot,
                                                   pluginOptions, processCwd),
                             writes |-> Len(rootWrites)])
  /\ UNCHANGED <<node, context, ret, orig, prev, calls, arg, res, fn, num, entry,
                 pluginState, processCwd, ctxResult, pluginOptions, resolvedRoot,
                 rootWrites, file, instances>>

\* transformAsync of a pending transform resolves
CompilerResolve ==
  /\ entry = "vite"
  /\ \E i \in 1..Len(transforms) :
       /\ transforms[i].request.status = "pending"
       /\ \E result \in CompilerResults(transformAsync(transforms[i].request.code,
                                                        transforms[i].request.tagger)) :
            transforms' = [transforms EXCEPT
                             ![i].request.status = "resolved",
                             ![i].request.outcome = [kind |-> "value",
                                             compiled |-> result,
                                             value |-> toViteResult(result)]]
  /\ UNCHANGED <<node, context, ret, orig, prev, calls, arg, res, fn, num, entry,
                 pluginState, processCwd, ctxResult, pluginOptions, resolvedRoot,
                 rootWrites, file, instances>>

\* transformAsync of a pending transform rejects
CompilerReject ==
  /\ entry = "vite"
  /\ \E i \in 1..Len(transforms) :
       /\ transforms[i].request.status = "pending"
       /\ \E cause \in RejectionCauses :
            transforms' = [transforms EXCEPT
                             ![i].request.status = "rejected",
                             ![i].request.outcome = [kind |-> "failure",
                                             rejection |-> cause,
                                             failure |-> tryPromiseCatch(cause)]]
  /\ UNCHANGED <<node, context, ret, orig, prev, calls, arg, res, fn, num, entry,
                 pluginState, processCwd, ctxResult, pluginOptions, resolvedRoot,
                 rootWrites, file, instances>>

NextVite == ConfigResolved \/ Transform \/ CompilerResolve \/ CompilerReject

SpecVite == InitVite /\ [][NextVite]_vars

\* the requests issued so far
Requests == { transforms[i].request : i \in 1..Len(transforms) }

\* the root the latest configResolved call set, or the root of construction
LatestRoot ==
  IF rootWrites = <<>> THEN processCwd ELSE rootWrites[Len(rootWrites)]

(***************************************************************************)
(* C14: a transform call whose id fails isJsxFile returns null at once,    *)
(* whatever the code and the plugin options: no relative path is computed, *)
(* the compiler is not invoked and the captured root stays what the        *)
(* latest configResolved made it.                                          *)
(***************************************************************************)
C14_PassThrough ==
  /\ \A r \in Requests :
       ~isJsxFile(r.id) =>
         /\ r.status = "returned"
         /\ r.outcome = [kind |-> "value", value |-> Null]
         /\ r.relative = Undefined
         /\ r.compilerCalls = 0
  /\ resolvedRoot = LatestRoot

\* "/w/b.ts" with a three-element module and a custom attribute name
C14_Witness ==
  /\ entry = "vite"
  /\ pluginOptions.kind = "object"
  /\ pluginOptions.attributeName = Str(customPathAttributeName)
  /\ rootWrites = << <<47, 119>> >>
  /\ \E r \in Requests :
       /\ r.id = <<47, 119, 47, 98, 46, 116, 115>>
       /\ Len(r.code) = 3
       /\ r.status = "returned"
       /\ r.outcome.value = Null

(***************************************************************************)
(* C15: a transform whose compiler invocation rejected ended in one error: *)
(* a ComponentTaggerError with the message "Babel transform failed" whose  *)
(* cause is the rejection value if that is an Error and otherwise an Error *)
(* with the value's string form as message; it has no value outcome, and   *)
(* the compiler was invoked once.                                          *)
(***************************************************************************)
C15_Failure ==
  \A r \in Requests :
    r.status = "rejected" =>
      /\ r.outcome.kind = "failure"
      /\ r.outcome.failure.kind = "error"
      /\ r.outcome.failure.error.tag = "ComponentTaggerError"
      /\ r.outcome.failure.error.message = babelTransformFailed
      /\ LET given == r.outcome.rejection
             cause == r.outcome.failure.error.cause
         IN  /\ cause.kind = "Error"
             /\ given.kind = "Error" => cause = given
             /\ given.kind = "string" => cause.message = given.value
             /\ given.kind = "undefined" =>
                  cause.message = <<117, 110, 100, 101, 102, 105, 110, 101, 100>>
      /\ r.compilerCalls = 1

\* the compiler rejected with undefined
C15_Witness ==
  \E r \in Requests :
    /\ r.status = "rejected"
    /\ r.outcome.rejection = Undefined
    /\ r.outcome.failure.error.message = babelTransformFailed
    /\ r.outcome.failure.error.cause.message =
         <<117, 110, 100, 101, 102, 105, 110, 101, 100>>

(***************************************************************************)
(* C16: a transform whose compiler invocation resolved returns null iff    *)
(* the compiler result is null or its code is null or undefined; otherwise *)
(* it returns the code the compiler produced, with the map the compiler    *)
(* produced, or with a null map when the compiler produced none.           *)
(***************************************************************************)
C16_ResultMapping ==
  \A r \in Requests :
    r.status = "resolved" =>
      LET compiled == r.outcome.compiled
          value == r.outcome.value
          noCode == \/ compiled.kind = "null"
                    \/ compiled.code.kind \in {"null", "undefined"}
      IN  /\ r.outcome.kind = "value"
          /\ (value = Null) <=> noCode
          /\ ~noCode =>
               /\ value.kind = "object"
               /\ value.code = compiled.code.value
               /\ value.code = transformAsync(r.code, r.tagger)
               /\ compiled.map.kind = "object" => value.map = compiled.map
               /\ compiled.map.kind \in {"null", "undefined"} => value.map = Null

\* code with an undefined map: the tagged <div> is returned with map null
C16_Witness ==
  \E r \in Requests :
    /\ r.status = "resolved"
    /\ Len(r.code) = 1
    /\ r.outcome.compiled.kind = "object"
    /\ r.outcome.compiled.code.kind = "string"
    /\ r.outcome.compiled.map = Undefined
    /\ r.outcome.value.map = Null
    /\ Len(r.outcome.value.code[1].attributes) = 1

(***************************************************************************)
(* C17 as stated: the captured root is written exactly once, by            *)
(* configResolved.                                                         *)
(***************************************************************************)
C17_WrittenOnce_Original ==
  entry = "vite" => Len(rootWrites) <= 1

(***************************************************************************)
(* C17 amended: the captured root is the process working directory from    *)
(* construction until the first configResolved and afterwards the root of  *)
(* the latest configResolved call; no transform call, returned, pending,   *)
(* resolved or rejected, changes it, and every eligible transform computes *)
(* its relative path against the root that was captured when it was        *)
(* issued.                                                                 *)
(***************************************************************************)
C17_RootFrame ==
  entry = "vite" =>
    /\ resolvedRoot = LatestRoot
    /\ \A i \in 1..Len(transforms) :
         LET r == transforms[i].request
             captured == IF transforms[i].writes = 0 THEN processCwd
                         ELSE rootWrites[transforms[i].writes]
         IN  r.status # "returned" =>
               /\ r.rootDir = Str(captured)
               /\ r.relative = Str(pathRelative(captured, stripQuery(r.id), processCwd))

\* "/r/A.tsx?v" was issued under root "/r" and resolved as "A.tsx"; a later
\* configResolved set the root to "/w"
C17_Witness ==
  /\ entry = "vite"
  /\ rootWrites = << <<47, 114>>, <<47, 119>> >>
  /\ resolvedRoot = <<47, 119>>
  /\ \E i \in 1..Len(transforms) :
       /\ transforms[i].writes = 1
       /\ transforms[i].request.id = <<47, 114, 47, 65, 46, 116, 115, 120, 63, 118>>
       /\ transforms[i].request.relative = Str(<<65, 46, 116, 115, 120>>)
       /\ transforms[i].request.status = "resolved"

(***************************************************************************)
(* Specification of all integrations: a dev-server plugin instance, or a   *)
(* compiler plugin or shim visiting an element                             *)
(***************************************************************************)
InitHost == InitBabel \/ InitVite

NextHost == NextBabel \/ NextVite

SpecHost == InitHost /\ [][NextHost]_vars

\* what the claim says of one element tagged under the attribute name x:
\* nothing but attributes named x is added, at the end; an element carrying
\* x is left alone; one that is due for tagging and lacks x gains one
CustomNameLaw(before, after, x, due) ==
  /\ IsPrefix(before, after)
  /\ \A k \in (Len(before) + 1)..Len(after) :
       /\ after[k].type = "JSXAttribute"
       /\ after[k].name = JsxIdentifier(x)
  /\ CountNamed(before, x) > 0 => after = before
  /\ x # componentPathAttributeName =>
       CountNamed(after, componentPathAttributeName) =
         CountNamed(before, componentPathAttributeName)
  /\ (due /\ CountNamed(before, x) = 0) => Len(after) = Len(before) + 1

TaggerClaimedAttributeName ==
  IF pluginOptions.kind = "object" /\ pluginOptions.attributeName.kind = "string"
  THEN pluginOptions.attributeName.value
  ELSE componentPathAttributeName

MaxWalks == 2
MaxFileNodes == 2

\* <div> and <App>, bare or carrying data-path="v", without a location or
\* at 1:0 or MaxLine:MaxCol; an opening fragment <> and a closing tag </div>
WalkNodes ==
  { [type |-> "JSXOpeningElement", name |-> JsxIdentifier(nm), attributes |-> as,
     loc |-> l] :
      nm \in { <<100, 105, 118>>, <<65, 112, 112>> },
      as \in { <<>>,
               << [type |-> "JSXAttribute",
                   name |-> JsxIdentifier(componentPathAttributeName),
                   value |-> HandWritten] >> },
      l \in { x \in Locations :
                x.kind = "loc" =>
                  /\ x.start \in { [line |-> 1, column |-> 0],
                                   [line |-> MaxLine, column |-> MaxCol] }
                  /\ x.end = x.start }
             \ { [kind |-> "undefined"] } } \cup
  { [type |-> "JSXOpeningFragment"],
    [type |-> "JSXClosingElement", name |-> JsxIdentifier(<<100, 105, 118>>)] }

WalkFiles == UNION { [1..n -> WalkNodes] : n \in 1..MaxFileNodes }

WalkContexts ==
  { c \in Contexts :
      /\ c.relativeFilename = <<66, 46, 106, 115, 120>>
      /\ c.options.kind = "object" => c.options.tagComponents \in {"true", "false"} }

\* the tree as a later parse gives it: located nodes moved down by d lines
Reparsed(tree, d) ==
  [i \in 1..Len(tree) |->
     IF tree[i].type = "JSXOpeningElement" /\ tree[i].loc.kind = "loc"
     THEN [tree[i] EXCEPT !.loc.start.line = @ + d, !.loc.end.line = @ + d]
     ELSE tree[i]]

InitWalk ==
  /\ node = [type |-> "JSXOpeningElement", name |-> JsxIdentifier(<<100, 105, 118>>),
             attributes |-> <<>>, loc |-> [kind |-> "null"]]
  /\ context \in WalkContexts
  /\ ret = FALSE
  /\ file \in WalkFiles
  /\ orig = file
  /\ prev = file
  /\ calls = 0
  /\ arg = NoString
  /\ res = FALSE
  /\ fn = "none"
  /\ num = NoNumbers
  /\ entry = "none"
  /\ pluginState = [filename |-> Undefined, cwd |-> Undefined, opts |-> Undefined]
  /\ processCwd = NoString
  /\ ctxResult = [kind |-> "none"]
  /\ pluginOptions = [kind |-> "undefined"]
  /\ resolvedRoot = NoString
  /\ rootWrites = <<>>
  /\ transforms = <<>>
  /\ instances = <<>>

\* one traversal of the file with the visitor of
\* createJsxTaggerVisitor(() => context)
Walk ==
  /\ calls < MaxWalks
  /\ \E relativeFilename \in RelativeFilenames, d \in {0, 1} :
       LET tree == Reparsed(file, d)
           ctx == [context EXCEPT !.relativeFilename = relativeFilename]
       IN  /\ context' = ctx
           /\ prev' = tree
           /\ file' = traverse(tree, makeBabelTagger(ctx.relativeFilename,
                                                     ctx.attributeName, ctx.options))
  /\ calls' = calls + 1
  /\ UNCHANGED <<node, ret, orig, arg, res, fn, num, entry, pluginState, processCwd,
                 ctxResult, pluginOptions, resolvedRoot, rootWrites, transforms,
                 instances>>

NextWalk == Walk

SpecWalk == InitWalk /\ [][NextWalk]_vars

(***************************************************************************)
(* C21: after a walk of the visitor over a file, every opening element     *)
(* that has a location, is eligible under the policy and carried no        *)
(* attribute of the context's name before the walk carries exactly one,    *)
(* valued with the context's file and the element's own start line and     *)
(* column; every element keeps its earlier attributes and gains at most    *)
(* one; fragments and closing tags are left as they were.                  *)
(***************************************************************************)
C21_WholeFile ==
  (file # <<>> /\ calls > 0) =>
    /\ Len(file) = Len(prev)
    /\ \A i \in 1..Len(file) :
         LET before == prev[i]
             after == file[i]
         IN  IF before.type # "JSXOpeningElement" THEN after = before
             ELSE /\ after.type = "JSXOpeningElement"
                  /\ after.name = before.name /\ after.loc = before.loc
                  /\ IsPrefix(before.attributes, after.attributes)
                  /\ Len(after.attributes) <= Len(before.attributes) + 1
                  /\ (/\ before.loc.kind = "loc"
                      /\ shouldTagElement(before, context.options)
                      /\ CountNamed(before.attributes, context.attributeName) = 0) =>
                       /\ CountNamed(after.attributes, context.attributeName) = 1
                       /\ Len(after.attributes) = Len(before.attributes) + 1
                       /\ after.attributes[Len(after.attributes)].value.value =
                            context.relativeFilename \o <<58>>
                              \o DecimalNumeral[before.loc.start.line] \o <<58>>
                              \o DecimalNumeral[before.loc.start.column]

\* <App> at MaxLine:MaxCol and <div> at 1:0 each carry their own position
C21_Witness ==
  /\ calls = 1 /\ Len(file) = 2
  /\ orig[1].type = "JSXOpeningElement" /\ orig[1].attributes = <<>>
  /\ orig[2].type = "JSXOpeningElement" /\ orig[2].attributes = <<>>
  /\ file[1].name = JsxIdentifier(<<65, 112, 112>>)
  /\ file[1].loc.kind = "loc" /\ file[1].loc.start = [line |-> MaxLine, column |-> MaxCol]
  /\ file[2].name = JsxIdentifier(<<100, 105, 118>>)
  /\ file[2].loc.kind = "loc" /\ file[2].loc.start = [line |-> 1, column |-> 0]
  /\ Len(file[1].attributes) = 1 /\ Len(file[2].attributes) = 1
  /\ file[2].attributes[1].value.value =
       context.relativeFilename \o <<58, 49, 58, 48>>
  /\ file[1].attributes[1].value.value # file[2].attributes[1].value.value

WrittenNameFirstChar ==
  IF node.name.type = "JSXIdentifier" THEN node.name.name[1]
  ELSE IF node.name.type = "JSXNamespacedName" THEN node.name.namespace.name[1]
  ELSE node.name.object.name[1]

C23_ReadmePredicate ==
  (/\ fn = "shouldTagElement"
   /\ node.name.type \in {"JSXIdentifier", "JSXNamespacedName", "JSXMemberExpression"}
   /\ context.options.kind = "object"
   /\ context.options.tagComponents \in {"true", "false"}) =>
    LET x0 == WrittenNameFirstChar
        html == x0 >= 97 /\ x0 <= 122
        component == x0 >= 65 /\ x0 <= 90
    IN  /\ html \/ component
        /\ res = (html \/ (context.options.tagComponents = "true" /\ component))

(***************************************************************************)
(* C24: processElement returns true iff the node has a location,           *)
(* attributeExists(node, context.attributeName) is false and               *)
(* shouldTagElement(node, context.options) is true; it returns true        *)
(* exactly when it appended one attribute and false exactly when it left   *)
(* the attribute list unchanged.                                           *)
(***************************************************************************)
C24_ReturnValue ==
  calls > 0 =>
    LET before == [node EXCEPT !.attributes = prev]
        due == /\ before.loc.kind = "loc"
               /\ ~attrExists(before, context.attributeName)
               /\ shouldTagElement(before, context.options)
        appended == /\ Len(node.attributes) = Len(prev) + 1
                    /\ SubSeq(node.attributes, 1, Len(prev)) = prev
        unchanged == node.attributes = prev
    IN  /\ ret = due
        /\ ret = appended
        /\ (~ret) = unchanged

\* <svg:path {...props}> gains the attribute and true is returned
C24_Witness ==
  /\ calls = 1
  /\ node.name.type = "JSXNamespacedName"
  /\ Len(orig) = 1 /\ orig[1].type = "JSXSpreadAttribute"
  /\ context.options.kind = "object" /\ context.options.tagComponents = "false"
  /\ ret = TRUE
  /\ Len(node.attributes) = 2
  /\ node.attributes[2].name = JsxIdentifier(context.attributeName)

MaxIsoConfigs == 2
MaxIsoTransforms == 2

\* componentTagger() and componentTagger({ attributeName: "custom-path",
\* tagComponents: false })
IsoOptions ==
  { Undefined,
    [kind |-> "object", attributeName |-> Str(customPathAttributeName),
     tagComponents |-> "false"] }

\* the module <App><div data-path="v"><Foo.Bar custom-path="v">, served as
\* "/r/A.tsx?v"
IsoCodes == { c \in Codes : Len(c) = 3 }
IsoIds == { <<47, 114, 47, 65, 46, 116, 115, 120, 63, 118>> }

InitIso ==
  /\ node = [type |-> "JSXOpeningElement", name |-> JsxIdentifier(<<100, 105, 118>>),
             attributes |-> <<>>, loc |-> [kind |-> "null"]]
  /\ context = [relativeFilename |-> NoString,
                attributeName |-> componentPathAttributeName,
                options |-> [kind |-> "undefined"]]
  /\ ret = FALSE
  /\ orig = <<>>
  /\ prev = <<>>
  /\ calls = 0
  /\ arg = NoString
  /\ res = FALSE
  /\ fn = "none"
  /\ num = NoNumbers
  /\ entry = "vite"
  /\ pluginState = [filename |-> Undefined, cwd |-> Undefined, opts |-> Undefined]
  /\ processCwd \in ProcessCwds
  /\ ctxResult = [kind |-> "none"]
  /\ pluginOptions = [kind |-> "undefined"]
  /\ resolvedRoot = NoString
  /\ rootWrites = <<>>
  /\ transforms = <<>>
  /\ file = <<>>
  /\ \E o1 \in IsoOptions, o2 \in IsoOptions :
       instances = << componentTagger(o1, processCwd), componentTagger(o2, processCwd) >>

\* the host calls configResolved on one of the instances
IsoConfigResolved ==
  /\ Len(instances[1].rootWrites) + Len(instances[2].rootWrites) < MaxIsoConfigs
  /\ \E j \in DOMAIN instances, root \in Directories :
       instances' = configResolved(instances, j, root)
  /\ UNCHANGED <<node, context, ret, orig, prev, calls, arg, res, fn, num, entry,
                 pluginState, processCwd, ctxResult, pluginOptions, resolvedRoot,
                 rootWrites, transforms, file>>

\* the host calls transform on one of the instances; earlier calls may
\* still be pending
IsoTransform ==
  /\ Len(transforms) < MaxIsoTransforms
  /\ \E j \in DOMAIN instances, code \in IsoCodes, id \in IsoIds :
       transforms' = Append(transforms,
                            [request |-> transform(code, id, instances[j].resolvedRoot,
                                                   instances[j].options, processCwd),
                             instance |-> j,
                             writes |-> Len(instances[j].rootWrites)])
  /\ UNCHANGED <<node, context, ret, orig, prev, calls, arg, res, fn, num, entry,
                 pluginState, processCwd, ctxResult, pluginOptions, resolvedRoot,
                 rootWrites, file, instances>>

\* the compiler call of a pending transform resolves with code and a map
IsoCompilerResolve ==
  /\ \E i \in 1..Len(transforms) :
       /\ transforms[i].request.status = "pending"
       /\ LET result == [kind |-> "object",
                         code |-> [kind |-> "string",
                                   value |-> transformAsync(transforms[i].request.code,
                                                            transforms[i].request.tagger)],
                         map |-> [kind |-> "object", version |-> 3]]
          IN  transforms' = [transforms EXCEPT
                               ![i].request.status = "resolved",
                               ![i].request.outcome = [kind |-> "value",
                                                       compiled |-> result,
                                                       value |-> toViteResult(result)]]
  /\ UNCHANGED <<node, context, ret, orig, prev, calls, arg, res, fn, num, entry,
                 pluginState, processCwd, ctxResult, pluginOptions, resolvedRoot,
                 rootWrites, file, instances>>

\* the compiler call of a pending transform rejects with an Error
IsoCompilerReject ==
  /\ \E i \in 1..Len(transforms) :
       /\ transforms[i].request.status = "pending"
       /\ LET cause == [kind |-> "Error", message |-> <<120>>]
          IN  transforms' = [transforms EXCEPT
                               ![i].request.status = "rejected",
                               ![i].request.outcome = [kind |-> "failure",
                                                       rejection |-> cause,
                                                       failure |-> tryPromiseCatch(cause)]]
  /\ UNCHANGED <<node, context, ret, orig, prev, calls, arg, res, fn, num, entry,
                 pluginState, processCwd, ctxResult, pluginOptions, resolvedRoot,
                 rootWrites, file, instances>>

NextIso == IsoConfigResolved \/ IsoTransform \/ IsoCompilerResolve \/ IsoCompilerReject

SpecIso == InitIso /\ [][NextIso]_vars

\* the attribute name and tagComponents setting instance j was built with
InstanceAttributeName(j) ==
  IF instances[j].options.kind = "object"
       /\ instances[j].options.attributeName.kind = "string"
  THEN instances[j].options.attributeName.value
  ELSE componentPathAttributeName

InstanceJsxOptions(j) ==
  IF instances[j].options.kind = "undefined" THEN [kind |-> "undefined"]
  ELSE [kind |-> "object",
        tagComponents |-> IF instances[j].options.tagComponents = "absent"
                          THEN "undefined"
                          ELSE instances[j].options.tagComponents]

(***************************************************************************)
(* C26: whatever configResolved and transform calls interleave on two      *)
(* instances, each instance's root is the one its own latest               *)
(* configResolved set (or the process working directory), and each         *)
(* transform's relative path, context and outcome are those given by its   *)
(* own code and id, the options of its own instance and the root that      *)
(* instance held when the transform was called.                            *)
(***************************************************************************)
C26_Isolation ==
  instances # <<>> =>
    /\ \A j \in DOMAIN instances :
         instances[j].resolvedRoot =
           IF instances[j].rootWrites = <<>> THEN processCwd
           ELSE instances[j].rootWrites[Len(instances[j].rootWrites)]
    /\ \A i \in 1..Len(transforms) :
         LET r == transforms[i].request
             j == transforms[i].instance
             captured == IF transforms[i].writes = 0 THEN processCwd
                         ELSE instances[j].rootWrites[transforms[i].writes]
             relative == pathRelative(captured, stripQuery(r.id), processCwd)
             own == [kind |-> "context",
                     value |-> [relativeFilename |-> relative,
                                attributeName |-> InstanceAttributeName(j),
                                options |-> InstanceJsxOptions(j)]]
         IN  /\ r.rootDir = Str(captured)
             /\ r.relative = Str(relative)
             /\ r.tagger = own
             /\ r.status = "resolved" =>
                  /\ r.outcome.value.kind = "object"
                  /\ r.outcome.value.code = traverse(r.code, own)
             /\ r.status = "rejected" =>
                  r.outcome.failure.error.cause = r.outcome.rejection

\* instance 1 (no options, root "/r") resolved with data-path="A.tsx:1:0" on
\* <App>; instance 2 ("custom-path", tagComponents false, root "/w") issued
\* its transform meanwhile and leaves <App> bare
C26_Witness ==
  /\ Len(instances) = 2 /\ Len(transforms) = 2
  /\ instances[1].options = Undefined
  /\ instances[2].options.kind = "object"
  /\ instances[1].resolvedRoot = <<47, 114>>
  /\ instances[2].resolvedRoot = <<47, 119>>
  /\ transforms[1].instance = 1 /\ transforms[2].instance = 2
  /\ transforms[1].writes = 1 /\ transforms[2].writes = 1
  /\ transforms[1].request.status = "resolved"
  /\ transforms[2].request.status = "resolved"
  /\ transforms[1].request.outcome.value.code[1].attributes[1].name =
       JsxIdentifier(componentPathAttributeName)
  /\ transforms[1].request.outcome.value.code[1].attributes[1].value.value =
       <<65, 46, 116, 115, 120, 58, 49, 58, 48>>
  /\ transforms[2].request.outcome.value.code[1].attributes = <<>>
  /\ Len(transforms[2].request.outcome.value.code[2].attributes) = 2
  /\ transforms[2].request.relative =
       Str(<<46, 46, 47, 114, 47, 65, 46, 116, 115, 120>>)

(***************************************************************************)
(* C27: a walk over a tree that an earlier walk has processed, under the   *)
(* same attribute name and tagComponents setting, leaves every node as it  *)
(* found it: no attribute is added and no attribute value changes, also    *)
(* when the relative filename or the nodes' lines differ from those of     *)
(* the earlier walk.                                                       *)
(***************************************************************************)
C27_RewalkNoChange ==
  (file # <<>> /\ calls >= 2) =>
    /\ file = prev
    /\ \A i \in 1..Len(file) :
         file[i].type = "JSXOpeningElement" =>
           /\ Len(file[i].attributes) <= Len(orig[i].attributes) + 1
           /\ CountNamed(file[i].attributes, context.attributeName) <= 1

\* <div> was tagged "src/A.tsx:1:0"; the second walk, as "B.jsx" with the
\* element on line 2, keeps that value
C27_Witness ==
  /\ calls = 2 /\ Len(file) >= 1
  /\ file[1].type = "JSXOpeningElement"
  /\ orig[1].attributes = <<>>
  /\ orig[1].loc.kind = "loc" /\ orig[1].loc.start = [line |-> 1, column |-> 0]
  /\ file[1].loc.start = [line |-> 2, column |-> 0]
  /\ context.relativeFilename = <<66, 46, 106, 115, 120>>
  /\ Len(file[1].attributes) = 1
  /\ file[1].attributes[1].value.value =
       <<115, 114, 99, 47, 65, 46, 116, 115, 120, 58, 49, 58, 48>>

(***************************************************************************)
(* Specification of the attribute-existence check                          *)
(***************************************************************************)
\* names asked for: data-path, custom-path, id, path, Data-path, data:path
QueryNames ==
  { componentPathAttributeName, customPathAttributeName, idAttributeName,
    <<112, 97, 116, 104>>,
    <<68, 97, 116, 97, 45, 112, 97, 116, 104>>,
    <<100, 97, 116, 97, 58, 112, 97, 116, 104>> }

\* a <div> with every attribute list of the model
AttributeNodes ==
  { n \in Nodes :
      /\ n.name = JsxIdentifier(<<100, 105, 118>>)
      /\ n.loc.kind = "null" }

InitAttr ==
  /\ node \in AttributeNodes
  /\ context = [relativeFilename |-> NoString,
                attributeName |-> componentPathAttributeName,
                options |-> [kind |-> "undefined"]]
  /\ ret = FALSE
  /\ orig = node.attributes
  /\ prev = node.attributes
  /\ calls = 0
  /\ arg \in QueryNames
  /\ res = FALSE
  /\ fn = "none"
  /\ num = NoNumbers
  /\ HostIdle

CallAttrExists ==
  /\ fn = "none"
  /\ res' = attrExists(node, arg)
  /\ fn' = "attrExists"
  /\ UNCHANGED <<node, context, ret, orig, prev, calls, arg, num, hostVars>>

NextAttr == CallAttrExists

SpecAttr == InitAttr /\ [][NextAttr]_vars

\* the name of a named attribute as it is written: "id", "data:path"
WrittenAttributeName(attr) ==
  IF attr.name.type = "JSXIdentifier" THEN attr.name.name
  ELSE attr.name.namespace.name \o <<58>> \o attr.name.name.name

(***************************************************************************)
(* C28 as stated: attributeExists(node, a) is true iff some non-spread     *)
(* attribute of node has a name textually equal to a; spread attributes    *)
(* never make it true and the node is not modified.                        *)
(***************************************************************************)
C28_AttributeExistsLaw ==
  fn = "attrExists" =>
    /\ res = \E i \in 1..Len(node.attributes) :
               /\ node.attributes[i].type # "JSXSpreadAttribute"
               /\ WrittenAttributeName(node.attributes[i]) = arg
    /\ node.attributes = orig

(***************************************************************************)
(* C29 as stated: whatever the rootDir option and the compiler working     *)
(* directory are (absent, empty or a path), the shim and the compiler      *)
(* plugin resolve the same root directory and compute the same relative    *)
(* filename for the same file.                                             *)
(***************************************************************************)
C29_RootAgreement ==
  /\ (entry = "babel" /\ ctxResult.kind = "context") =>
       /\ pathResolve(resolveRootDir(pluginState), processCwd) =
            pathResolve(shimRootDir(pluginState, processCwd), processCwd)
       /\ ctxResult.value.relativeFilename =
            pathRelative(shimRootDir(pluginState, processCwd),
                         pluginState.filename.value, processCwd)
  /\ (entry = "shim" /\ calls > 0 /\ Len(node.attributes) > Len(prev)) =>
       node.attributes[Len(node.attributes)].value.value =
         formatComponentPathValue(
           computeRelativePath(resolveRootDir(pluginState),
                               pluginState.filename.value, processCwd),
           node.loc.start.line, node.loc.start.column)

\* index of the last ":" among the first n characters of s, 0 if none
LastColon(s, n) ==
  LET at == { i \in 1..n : s[i] = 58 }
  IN  IF at = {} THEN 0 ELSE CHOOSE i \in at : \A j \in at : j <= i

(***************************************************************************)
(* C30: formatComponentPathValue loses nothing: no other triple of         *)
(* filename, line and column gives the same payload, also when the         *)
(* filename holds ":" or digits, and splitting the payload at its last two *)
(* ":" gives back the filename, the line and the column.                   *)
(***************************************************************************)
C30_Injective ==
  fn = "formatComponentPathValue" =>
    LET k2 == LastColon(res, Len(res))
        k1 == LastColon(res, k2 - 1)
    IN  /\ k1 >= 1 /\ k2 > k1 + 1 /\ k2 < Len(res)
        /\ SubSeq(res, 1, k1 - 1) = arg
        /\ SubSeq(res, k1 + 1, k2 - 1) = DecimalNumeral[num.line]
        /\ SubSeq(res, k2 + 1, Len(res)) = DecimalNumeral[num.column]
        /\ \A n \in 0..Len(res), l \in 1..MaxFmtLine, c \in 0..MaxFmtCol :
             formatComponentPathValue(SubSeq(res, 1, n), l, c) = res =>
               /\ SubSeq(res, 1, n) = arg
               /\ l = num.line
               /\ c = num.column

\* ":1" at 2:3 gives ":1:2:3", which is not "" at line 1 or ":1:2" at any
C30_Witness ==
  /\ fn = "formatComponentPathValue"
  /\ arg = <<58, 49>>
  /\ num = [line |-> 2, column |-> 3]
  /\ res = <<58, 49, 58, 50, 58, 51>>

====
